---- MODULE Spec2Model ----
(***************************************************************************)
(* Model of src-tauri/src/main.rs: the launcher of the transcription       *)
(* viewer.  main() runs start_backend() once, stores the returned          *)
(* Option<Child> in BackendProcess(Mutex<..>) and runs the window host;    *)
(* the on_window_event closure takes the child out of the mutex and kills  *)
(* it when a window is destroyed.                                          *)
(*                                                                         *)
(* Paths are sequences of components, Option<T> is a sequence of length    *)
(* 0 (None) or 1 (Some), the filesystem and the outcome of every spawn and *)
(* kill are inputs of the environment.                                     *)
(***************************************************************************)
EXTENDS Integers, Sequences, FiniteSets, TLC

\* Number of threads on which the window host may invoke the event closure.
NumThreads == 2
\* Number of window events delivered in one run of the application.
MaxEvents == 2

VARIABLES
    fs,             \* the files that exist (the main.py files of the filesystem)
    pc,             \* position of the main thread
    exe_dir,        \* start_backend: Option<PathBuf>
    backend_paths,  \* start_backend: the array of candidate directories
    idx,            \* start_backend: position of the for loop in backend_paths
    attempts,       \* every Command::spawn() call made, in order, with its outcome
    procs,          \* the OS processes spawned by this program, in order
    stdout,         \* lines written by println!
    stderr,         \* lines written by eprintln!
    backend,        \* main: the value returned by start_backend
    managed,        \* whether BackendProcess has been handed to the Builder
    slot,           \* BackendProcess.0: the Option<Child> inside the Mutex
    lockHolder,     \* the thread holding the Mutex, 0 when it is free
    hpc,            \* position of each thread inside the event closure
    hevent,         \* closure parameter: the event of the call in progress
    hchild,         \* closure local: the Option<Child> taken from the guard
    delivered,      \* number of window events delivered so far
    completed,      \* number of Destroyed events whose closure call has returned
    kills           \* every Child::kill() call made, in order, with its result

vars == <<fs, pc, exe_dir, backend_paths, idx, attempts, procs, stdout, stderr,
          backend, managed, slot, lockHolder, hpc, hevent, hchild, delivered,
          completed, kills>>

sbVars == <<exe_dir, backend_paths, idx, attempts, procs, stdout, stderr, backend>>
hVars == <<slot, lockHolder, hpc, hevent, hchild, delivered, completed, kills>>

Threads == 1..NumThreads

----------------------------------------------------------------------------
\* Option<T>
None == <<>>
Some(x) == <<x>>
IsSome(o) == Len(o) = 1
Unwrap(o) == o[1]
\* Option::unwrap_or_default for PathBuf: the empty path when None
UnwrapOrDefault(o) == IF IsSome(o) THEN Unwrap(o) ELSE <<>>

\* Result<PathBuf, io::Error> of std::env::current_exe()
Err == [ok |-> FALSE, val |-> <<>>]
Ok(p) == [ok |-> TRUE, val |-> p]
\* Result::ok
ResultOk(r) == IF r.ok THEN Some(r.val) ELSE None

\* Path::join with a relative argument: the components are appended.
Join(p, q) == p \o q
\* Path::parent: None for the empty path and for a root.
Parent(p) == IF p = <<>> \/ p = <<"/">> THEN None ELSE Some(SubSeq(p, 1, Len(p) - 1))

\* The values current_exe() may return: an error, a root, an ordinary path.
ExePaths == {<<"/">>, <<"/", "app", "viewer">>}
CurrentExeResults == {Err} \cup {Ok(p) : p \in ExePaths}

MainPy == <<"main.py">>
DevPath == <<"..", "backend">>
ResourcesRel == <<"..", "Resources", "backend">>
FlatRel == <<"backend">>

\* exe_dir as lines 37-39 compute it from the result of current_exe()
ExeDirOf(r) == IF IsSome(ResultOk(r)) THEN Parent(Unwrap(ResultOk(r))) ELSE None

\* backend_paths as lines 42-48 compute it from exe_dir
BackendPathsOf(ed) ==
    << DevPath,
       UnwrapOrDefault(IF IsSome(ed) THEN Some(Join(Unwrap(ed), ResourcesRel)) ELSE None),
       UnwrapOrDefault(IF IsSome(ed) THEN Some(Join(Unwrap(ed), FlatRel)) ELSE None) >>

\* Every main.py the filesystem may hold: one per directory the program can
\* name, the current working directory (the empty path) included.
Directories ==
    UNION {{BackendPathsOf(ExeDirOf(r))[i] : i \in 1..3} : r \in CurrentExeResults}
MainPyFiles == {Join(d, MainPy) : d \in Directories}

\* Path::exists
Exists(p) == p \in fs

Uv == "uv"
Python == "python"

\* The Child a successful spawn returns: a new OS process.
NewChild(program, dir) == [pid |-> Len(procs) + 1, program |-> program, cwd |-> dir]

StartedLine(program, dir) == [text |-> "Backend started with", program |-> program, at |-> dir]
WarningLine == [text |-> "Warning: Could not start backend server"]

\* tauri::WindowEvent values the host delivers; NoEvent: no call in progress
WindowEvents == {"Destroyed", "CloseRequested", "Focused"}
NoEvent == "none"

----------------------------------------------------------------------------
Init ==
    /\ fs \in SUBSET MainPyFiles
    /\ pc = "start_backend"
    /\ exe_dir = None
    /\ backend_paths = <<>>
    /\ idx = 1
    /\ attempts = <<>>
    /\ procs = <<>>
    /\ stdout = <<>>
    /\ stderr = <<>>
    /\ backend = None
    /\ managed = FALSE
    /\ slot = None
    /\ lockHolder = 0
    /\ hpc = [t \in Threads |-> "idle"]
    /\ hevent = [t \in Threads |-> NoEvent]
    /\ hchild = [t \in Threads |-> None]
    /\ delivered = 0
    /\ completed = 0
    /\ kills = <<>>

----------------------------------------------------------------------------
\* start_backend, lines 37-48: resolve exe_dir and build backend_paths.
ResolvePaths ==
    /\ pc = "start_backend"
    /\ \E r \in CurrentExeResults :
          /\ exe_dir' = ExeDirOf(r)
          /\ backend_paths' = BackendPathsOf(ExeDirOf(r))
    /\ idx' = 1
    /\ pc' = "loop"
    /\ UNCHANGED <<fs, attempts, procs, stdout, stderr, backend, managed>>
    /\ UNCHANGED hVars

\* LoopCheck without the main_py.exists() test: every candidate is launched in.
LoopCheckNoExists ==
    /\ pc = "loop"
    /\ idx <= Len(backend_paths)
    /\ pc' = "spawn_uv"
    /\ idx' = idx
    /\ UNCHANGED <<fs, exe_dir, backend_paths, attempts, procs, stdout, stderr,
                   backend, managed>>
    /\ UNCHANGED hVars

\* LoopCheck that goes to the python launch first (the two if let blocks
\* of lines 54-71 in the other order, the loop going on after the second).
LoopCheckPythonFirst ==
    /\ pc = "loop"
    /\ idx <= Len(backend_paths)
    /\ IF Exists(Join(backend_paths[idx], MainPy))
          THEN /\ pc' = "spawn_python"
               /\ idx' = idx
          ELSE /\ pc' = "loop"
               /\ idx' = idx + 1
    /\ UNCHANGED <<fs, exe_dir, backend_paths, attempts, procs, stdout, stderr,
                   backend, managed>>
    /\ UNCHANGED hVars

\* lines 50-52: the next iteration of the for loop and its main_py.exists().
LoopCheck ==
    /\ pc = "loop"
    /\ idx <= Len(backend_paths)
    /\ IF Exists(Join(backend_paths[idx], MainPy))
          THEN /\ pc' = "spawn_uv"
               /\ idx' = idx
          ELSE /\ pc' = "loop"
               /\ idx' = idx + 1
    /\ UNCHANGED <<fs, exe_dir, backend_paths, attempts, procs, stdout, stderr,
                   backend, managed>>
    /\ UNCHANGED hVars

\* SpawnUv without the return of line 60: the python launch follows a
\* successful uv launch.
SpawnUvNoReturn ==
    /\ pc = "spawn_uv"
    /\ \E ok \in BOOLEAN :
          /\ attempts' = Append(attempts,
                [cand |-> idx, program |-> Uv, cwd |-> backend_paths[idx], ok |-> ok])
          /\ IF ok
                THEN /\ procs' = Append(procs, NewChild(Uv, backend_paths[idx]))
                     /\ stdout' = Append(stdout, StartedLine(Uv, backend_paths[idx]))
                     /\ backend' = Some(NewChild(Uv, backend_paths[idx]))
                ELSE UNCHANGED <<procs, stdout, backend>>
    /\ pc' = "spawn_python"
    /\ UNCHANGED <<fs, exe_dir, backend_paths, idx, stderr, managed>>
    /\ UNCHANGED hVars

\* SpawnUv without the current_dir of line 56: the child runs in the
\* launcher's own working directory.
SpawnUvNoCurrentDir ==
    /\ pc = "spawn_uv"
    /\ \E ok \in BOOLEAN :
          /\ attempts' = Append(attempts,
                [cand |-> idx, program |-> Uv, cwd |-> <<>>, ok |-> ok])
          /\ IF ok
                THEN /\ procs' = Append(procs, NewChild(Uv, <<>>))
                     /\ stdout' = Append(stdout, StartedLine(Uv, backend_paths[idx]))
                     /\ backend' = Some(NewChild(Uv, <<>>))
                     /\ pc' = "returned"
                ELSE /\ pc' = "spawn_python"
                     /\ UNCHANGED <<procs, stdout, backend>>
    /\ UNCHANGED <<fs, exe_dir, backend_paths, idx, stderr, managed>>
    /\ UNCHANGED hVars

\* SpawnUv that reports a failed spawn with a line of its own on stderr.
SpawnUvLogsFailure ==
    /\ pc = "spawn_uv"
    /\ \E ok \in BOOLEAN :
          /\ attempts' = Append(attempts,
                [cand |-> idx, program |-> Uv, cwd |-> backend_paths[idx], ok |-> ok])
          /\ IF ok
                THEN /\ procs' = Append(procs, NewChild(Uv, backend_paths[idx]))
                     /\ stdout' = Append(stdout, StartedLine(Uv, backend_paths[idx]))
                     /\ backend' = Some(NewChild(Uv, backend_paths[idx]))
                     /\ pc' = "returned"
                     /\ UNCHANGED stderr
                ELSE /\ pc' = "spawn_python"
                     /\ stderr' = Append(stderr, WarningLine)
                     /\ UNCHANGED <<procs, stdout, backend>>
    /\ UNCHANGED <<fs, exe_dir, backend_paths, idx, managed>>
    /\ UNCHANGED hVars

\* lines 54-61: Command::new("uv")...current_dir(backend_path).spawn()
SpawnUv ==
    /\ pc = "spawn_uv"
    /\ \E ok \in BOOLEAN :
          /\ attempts' = Append(attempts,
                [cand |-> idx, program |-> Uv, cwd |-> backend_paths[idx], ok |-> ok])
          /\ IF ok
                THEN /\ procs' = Append(procs, NewChild(Uv, backend_paths[idx]))
                     /\ stdout' = Append(stdout, StartedLine(Uv, backend_paths[idx]))
                     /\ backend' = Some(NewChild(Uv, backend_paths[idx]))
                     /\ pc' = "returned"
                ELSE /\ pc' = "spawn_python"
                     /\ UNCHANGED <<procs, stdout, backend>>
    /\ UNCHANGED <<fs, exe_dir, backend_paths, idx, stderr, managed>>
    /\ UNCHANGED hVars

\* SpawnPython without the return of line 70: the loop goes on after a
\* successful python launch.
SpawnPythonNoReturn ==
    /\ pc = "spawn_python"
    /\ \E ok \in BOOLEAN :
          /\ attempts' = Append(attempts,
                [cand |-> idx, program |-> Python, cwd |-> backend_paths[idx], ok |-> ok])
          /\ IF ok
                THEN /\ procs' = Append(procs, NewChild(Python, backend_paths[idx]))
                     /\ stdout' = Append(stdout, StartedLine(Python, backend_paths[idx]))
                     /\ backend' = Some(NewChild(Python, backend_paths[idx]))
                ELSE UNCHANGED <<procs, stdout, backend>>
    /\ pc' = "loop"
    /\ idx' = idx + 1
    /\ UNCHANGED <<fs, exe_dir, backend_paths, stderr, managed>>
    /\ UNCHANGED hVars

\* SpawnPython with a break after the failed fallback: the later candidates
\* are given up.
SpawnPythonBreak ==
    /\ pc = "spawn_python"
    /\ \E ok \in BOOLEAN :
          /\ attempts' = Append(attempts,
                [cand |-> idx, program |-> Python, cwd |-> backend_paths[idx], ok |-> ok])
          /\ IF ok
                THEN /\ procs' = Append(procs, NewChild(Python, backend_paths[idx]))
                     /\ stdout' = Append(stdout, StartedLine(Python, backend_paths[idx]))
                     /\ backend' = Some(NewChild(Python, backend_paths[idx]))
                     /\ pc' = "returned"
                     /\ idx' = idx
                ELSE /\ pc' = "loop"
                     /\ idx' = Len(backend_paths) + 1
                     /\ UNCHANGED <<procs, stdout, backend>>
    /\ UNCHANGED <<fs, exe_dir, backend_paths, stderr, managed>>
    /\ UNCHANGED hVars

\* SpawnPython that does not look at the result of spawn(): a handle is
\* returned whether or not a process was started.
SpawnPythonIgnoresError ==
    /\ pc = "spawn_python"
    /\ \E ok \in BOOLEAN :
          /\ attempts' = Append(attempts,
                [cand |-> idx, program |-> Python, cwd |-> backend_paths[idx], ok |-> ok])
          /\ procs' = IF ok THEN Append(procs, NewChild(Python, backend_paths[idx]))
                            ELSE procs
    /\ stdout' = Append(stdout, StartedLine(Python, backend_paths[idx]))
    /\ backend' = Some(NewChild(Python, backend_paths[idx]))
    /\ pc' = "returned"
    /\ idx' = idx
    /\ UNCHANGED <<fs, exe_dir, backend_paths, stderr, managed>>
    /\ UNCHANGED hVars

\* lines 64-72: Command::new("python")...spawn(); on failure the loop goes on.
SpawnPython ==
    /\ pc = "spawn_python"
    /\ \E ok \in BOOLEAN :
          /\ attempts' = Append(attempts,
                [cand |-> idx, program |-> Python, cwd |-> backend_paths[idx], ok |-> ok])
          /\ IF ok
                THEN /\ procs' = Append(procs, NewChild(Python, backend_paths[idx]))
                     /\ stdout' = Append(stdout, StartedLine(Python, backend_paths[idx]))
                     /\ backend' = Some(NewChild(Python, backend_paths[idx]))
                     /\ pc' = "returned"
                     /\ idx' = idx
                ELSE /\ pc' = "loop"
                     /\ idx' = idx + 1
                     /\ UNCHANGED <<procs, stdout, backend>>
    /\ UNCHANGED <<fs, exe_dir, backend_paths, stderr, managed>>
    /\ UNCHANGED hVars

\* ReturnNone that panics instead of returning None (an expect on the
\* outcome of the loop).
ReturnNonePanic ==
    /\ pc = "loop"
    /\ idx > Len(backend_paths)
    /\ stderr' = Append(stderr, WarningLine)
    /\ pc' = "panicked"
    /\ UNCHANGED <<fs, exe_dir, backend_paths, idx, attempts, procs, stdout, backend,
                   managed>>
    /\ UNCHANGED hVars

\* ReturnNone without the eprintln! of line 75.
ReturnNoneSilent ==
    /\ pc = "loop"
    /\ idx > Len(backend_paths)
    /\ backend' = None
    /\ pc' = "returned"
    /\ UNCHANGED <<fs, exe_dir, backend_paths, idx, attempts, procs, stdout, stderr,
                   managed>>
    /\ UNCHANGED hVars

\* lines 75-76: the loop is exhausted: warn and return None.
ReturnNone ==
    /\ pc = "loop"
    /\ idx > Len(backend_paths)
    /\ stderr' = Append(stderr, WarningLine)
    /\ backend' = None
    /\ pc' = "returned"
    /\ UNCHANGED <<fs, exe_dir, backend_paths, idx, attempts, procs, stdout, managed>>
    /\ UNCHANGED hVars

----------------------------------------------------------------------------
\* main, lines 13-30: the Builder takes BackendProcess(Mutex::new(backend)),
\* the plugins and the window event closure.
Manage ==
    /\ pc = "returned"
    /\ slot' = backend
    /\ managed' = TRUE
    /\ pc' = "built"
    /\ UNCHANGED <<fs, lockHolder, hpc, hevent, hchild, delivered, completed, kills>>
    /\ UNCHANGED sbVars

\* line 31: run() starts the event loop.
Run ==
    /\ pc = "built"
    /\ pc' = "running"
    /\ UNCHANGED <<fs, managed>>
    /\ UNCHANGED sbVars
    /\ UNCHANGED hVars

\* lines 31-32: run() returns an error and expect() panics.
RunError ==
    /\ pc = "built"
    /\ pc' = "panicked"
    /\ UNCHANGED <<fs, managed>>
    /\ UNCHANGED sbVars
    /\ UNCHANGED hVars

----------------------------------------------------------------------------
\* line 19: the host calls the closure with a window event on thread t.
OnWindowEvent(t) ==
    /\ pc = "running"
    /\ hpc[t] = "idle"
    /\ delivered < MaxEvents
    /\ delivered' = delivered + 1
    /\ \E event \in WindowEvents : hevent' = [hevent EXCEPT ![t] = event]
    /\ hpc' = [hpc EXCEPT ![t] = "match"]
    /\ UNCHANGED <<fs, pc, managed, slot, lockHolder, hchild, completed, kills>>
    /\ UNCHANGED sbVars

\* MatchDestroyed without the if let of line 20: every window event stops
\* the backend.
MatchAnyEvent(t) ==
    /\ hpc[t] = "match"
    /\ hpc' = [hpc EXCEPT ![t] = "try_state"]
    /\ UNCHANGED <<fs, pc, managed, slot, lockHolder, hevent, hchild, delivered,
                   completed, kills>>
    /\ UNCHANGED sbVars

\* MatchDestroyed with the wrong variant in the pattern of line 20:
\* CloseRequested stops the backend and Destroyed does not.
MatchWrongEvent(t) ==
    /\ hpc[t] = "match"
    /\ IF hevent[t] = "CloseRequested"
          THEN /\ hpc' = [hpc EXCEPT ![t] = "try_state"]
               /\ UNCHANGED hevent
          ELSE /\ hpc' = [hpc EXCEPT ![t] = "idle"]
               /\ hevent' = [hevent EXCEPT ![t] = NoEvent]
    /\ UNCHANGED <<fs, pc, managed, slot, lockHolder, hchild, delivered, completed, kills>>
    /\ UNCHANGED sbVars

\* line 20: if let tauri::WindowEvent::Destroyed = event; any other event
\* falls through and the closure returns.
MatchDestroyed(t) ==
    /\ hpc[t] = "match"
    /\ IF hevent[t] = "Destroyed"
          THEN /\ hpc' = [hpc EXCEPT ![t] = "try_state"]
               /\ UNCHANGED hevent
          ELSE /\ hpc' = [hpc EXCEPT ![t] = "idle"]
               /\ hevent' = [hevent EXCEPT ![t] = NoEvent]
    /\ UNCHANGED <<fs, pc, managed, slot, lockHolder, hchild, delivered, completed, kills>>
    /\ UNCHANGED sbVars

\* line 22: window.try_state::<BackendProcess>()
TryState(t) ==
    /\ hpc[t] = "try_state"
    /\ IF managed
          THEN /\ hpc' = [hpc EXCEPT ![t] = "lock"]
               /\ UNCHANGED <<hevent, completed>>
          ELSE /\ hpc' = [hpc EXCEPT ![t] = "idle"]
               /\ hevent' = [hevent EXCEPT ![t] = NoEvent]
               /\ completed' = completed + 1
    /\ UNCHANGED <<fs, pc, managed, slot, lockHolder, hchild, delivered, kills>>
    /\ UNCHANGED sbVars

\* line 23: state.0.lock() blocks until the mutex is free.  No holder of the
\* guard can panic, so the mutex is never poisoned and lock() returns Ok.
Lock(t) ==
    /\ hpc[t] = "lock"
    /\ lockHolder = 0
    /\ lockHolder' = t
    /\ hpc' = [hpc EXCEPT ![t] = "take"]
    /\ UNCHANGED <<fs, pc, managed, slot, hevent, hchild, delivered, completed, kills>>
    /\ UNCHANGED sbVars

\* Take that reads the slot without clearing it (as_mut instead of take).
TakeNoClear(t) ==
    /\ hpc[t] = "take"
    /\ lockHolder = t
    /\ hchild' = [hchild EXCEPT ![t] = slot]
    /\ hpc' = [hpc EXCEPT ![t] = IF IsSome(slot) THEN "kill" ELSE "unlock"]
    /\ UNCHANGED <<fs, pc, managed, slot, lockHolder, hevent, delivered, completed, kills>>
    /\ UNCHANGED sbVars

\* line 24: guard.take() moves the Option out of the slot and leaves None.
Take(t) ==
    /\ hpc[t] = "take"
    /\ lockHolder = t
    /\ hchild' = [hchild EXCEPT ![t] = slot]
    /\ slot' = None
    /\ hpc' = [hpc EXCEPT ![t] = IF IsSome(slot) THEN "kill" ELSE "unlock"]
    /\ UNCHANGED <<fs, pc, managed, lockHolder, hevent, delivered, completed, kills>>
    /\ UNCHANGED sbVars

\* Kill that unwraps the result of kill(): an error panics inside the closure
\* and the call never reaches the end of the guard's scope.
KillExpect(t) ==
    /\ hpc[t] = "kill"
    /\ \E res \in {"Ok", "Err"} :
          /\ kills' = Append(kills, [child |-> Unwrap(hchild[t]), by |-> t, result |-> res])
          /\ IF res = "Ok"
                THEN /\ hpc' = [hpc EXCEPT ![t] = "unlock"]
                     /\ pc' = pc
                ELSE /\ hpc' = [hpc EXCEPT ![t] = "idle"]
                     /\ pc' = "panicked"
    /\ UNCHANGED <<fs, managed, slot, lockHolder, hevent, hchild, delivered, completed>>
    /\ UNCHANGED sbVars

\* Kill that puts the child back into the slot when kill() returns an error.
KillRestoreOnErr(t) ==
    /\ hpc[t] = "kill"
    /\ \E res \in {"Ok", "Err"} :
          /\ kills' = Append(kills, [child |-> Unwrap(hchild[t]), by |-> t, result |-> res])
          /\ slot' = IF res = "Err" THEN hchild[t] ELSE slot
    /\ hpc' = [hpc EXCEPT ![t] = "unlock"]
    /\ UNCHANGED <<fs, pc, managed, lockHolder, hevent, hchild, delivered, completed>>
    /\ UNCHANGED sbVars

\* line 25: let _ = child.kill(); the result is dropped.
Kill(t) ==
    /\ hpc[t] = "kill"
    /\ \E res \in {"Ok", "Err"} :
          kills' = Append(kills, [child |-> Unwrap(hchild[t]), by |-> t, result |-> res])
    /\ hpc' = [hpc EXCEPT ![t] = "unlock"]
    /\ UNCHANGED <<fs, pc, managed, slot, lockHolder, hevent, hchild, delivered, completed>>
    /\ UNCHANGED sbVars

\* lines 26-29: child and guard go out of scope (the mutex is released) and
\* the closure returns.
Unlock(t) ==
    /\ hpc[t] = "unlock"
    /\ lockHolder = t
    /\ lockHolder' = 0
    /\ hchild' = [hchild EXCEPT ![t] = None]
    /\ hpc' = [hpc EXCEPT ![t] = "idle"]
    /\ hevent' = [hevent EXCEPT ![t] = NoEvent]
    /\ completed' = completed + 1
    /\ UNCHANGED <<fs, pc, managed, slot, delivered, kills>>
    /\ UNCHANGED sbVars

----------------------------------------------------------------------------
Next ==
    \/ ResolvePaths
    \/ LoopCheck
    \/ SpawnUv
    \/ SpawnPython
    \/ ReturnNone
    \/ Manage
    \/ Run
    \/ RunError
    \/ \E t \in Threads : OnWindowEvent(t)
    \/ \E t \in Threads : MatchDestroyed(t)
    \/ \E t \in Threads : TryState(t)
    \/ \E t \in Threads : Lock(t)
    \/ \E t \in Threads : Take(t)
    \/ \E t \in Threads : Kill(t)
    \/ \E t \in Threads : Unlock(t)

Spec == Init /\ [][Next]_vars

\* A closure call, once made, runs to its end: the thread it runs on takes
\* each of its steps when the step stays possible, and lock() returns once
\* the mutex stays free.  Nothing obliges the host to deliver an event, the
\* main thread to go on, or run() to succeed.
ClosureStep(t) ==
    MatchDestroyed(t) \/ TryState(t) \/ Lock(t) \/ Take(t) \/ Kill(t) \/ Unlock(t)
FairSpec == Spec /\ \A t \in Threads : WF_vars(ClosureStep(t))

----------------------------------------------------------------------------
\* Vocabulary of the properties

\* start_backend has returned to main
Returned == pc \in {"returned", "built", "running", "panicked"}
\* backend_paths has been built
Resolved == backend_paths # <<>>
Candidates == 1..Len(backend_paths)
\* the entry-point check of candidate i, as line 52 evaluates it
HasMain(i) == Exists(Join(backend_paths[i], MainPy))
Attempts == 1..Len(attempts)
AttemptsOf(program) == {k \in Attempts : attempts[k].program = program}
\* some handler has taken a child out of the slot
Cleared == \E t \in Threads : IsSome(hchild[t]) \/ kills # <<>>

\* C1: start_backend never attempts a spawn in a candidate directory whose
\* main.py check fails, and its first spawn attempt targets the lowest-index
\* candidate whose check succeeds (one is made whenever such a candidate
\* exists).
C1_FirstSpawnTargetsFirstValid ==
    /\ \A k \in Attempts :
          /\ attempts[k].cand \in Candidates
          /\ attempts[k].cwd = backend_paths[attempts[k].cand]
          /\ HasMain(attempts[k].cand)
    /\ attempts # <<>> =>
          /\ HasMain(attempts[1].cand)
          /\ \A j \in Candidates : j < attempts[1].cand => ~HasMain(j)
    /\ (Returned /\ \E i \in Candidates : HasMain(i)) => attempts # <<>>

C1_Witness ==
    /\ Returned
    /\ attempts # <<>>
    /\ attempts[1].cand = 3
    /\ IsSome(exe_dir)

\* C2: when the main.py check fails for every candidate, start_backend makes
\* no spawn attempt, returns None and writes exactly one line, the warning.
C2_NoCandidateReturnsNone ==
    (Resolved /\ \A i \in Candidates : ~HasMain(i)) =>
        /\ attempts = <<>>
        /\ procs = <<>>
        /\ Returned =>
              /\ backend = None
              /\ stdout = <<>>
              /\ stderr = <<WarningLine>>

C2_Witness ==
    /\ pc = "returned"
    /\ \A i \in Candidates : ~HasMain(i)
    /\ fs # {}
    /\ stderr = <<WarningLine>>

\* C3: when uv fails to spawn in a candidate directory and python then
\* succeeds there, start_backend returns the Child of that python spawn,
\* running in that directory, and that spawn is the last attempt made.
C3_SecondaryHandleReturned ==
    \A k \in Attempts :
        (/\ k > 1
         /\ attempts[k - 1].program = Uv
         /\ ~attempts[k - 1].ok
         /\ attempts[k].program = Python
         /\ attempts[k].cand = attempts[k - 1].cand
         /\ attempts[k].ok) =>
            /\ k = Len(attempts)
            /\ Returned
            /\ IsSome(backend)
            /\ Unwrap(backend).program = Python
            /\ Unwrap(backend).cwd = attempts[k].cwd
            /\ Unwrap(backend).cwd = attempts[k - 1].cwd
            /\ procs # <<>>
            /\ procs[Len(procs)] = Unwrap(backend)

C3_Witness ==
    /\ pc = "running"
    /\ Len(attempts) = 2
    /\ ~attempts[1].ok
    /\ attempts[2].ok
    /\ attempts[2].program = Python

\* C4: however the closure calls for Destroyed events interleave, at most
\* one kill is ever issued, and once one call has completed for a backend
\* that was started, exactly one has been issued.
C4_ExactlyOneKill ==
    /\ Len(kills) <= 1
    /\ (IsSome(backend) /\ completed >= 1) => Len(kills) = 1

C4_Witness ==
    \E t, u \in Threads :
        /\ t # u
        /\ hpc[t] = "unlock"
        /\ hpc[u] = "lock"
        /\ hevent[u] = "Destroyed"
        /\ lockHolder = t
        /\ Len(kills) = 1

\* C5: once one closure call for a Destroyed event has completed, the slot
\* is empty, every later call takes None out of it, no step issues a kill
\* and no step changes the slot.
C5_SecondDestroyedIsNoOp ==
    /\ [](completed >= 1 =>
            /\ slot = None
            /\ \A t \in Threads : hchild[t] = None /\ hpc[t] # "kill")
    /\ [][completed >= 1 => (kills' = kills /\ slot' = slot)]_vars

C5_Witness ==
    /\ completed >= 1
    /\ IsSome(backend)
    /\ Len(kills) = 1
    /\ \E t \in Threads : hpc[t] = "unlock" /\ hchild[t] = None

\* C6: at most one backend process is ever spawned by the program, the slot
\* holds nothing but that process, and once a handler has taken the child
\* out of the slot no step puts a value back.
C6_OneProcessNeverRepopulated ==
    /\ [](/\ Len(procs) <= 1
          /\ IsSome(slot) => (procs = <<Unwrap(slot)>> /\ slot = backend))
    /\ [][Cleared => slot' = None]_vars

C6_Witness ==
    /\ Cleared
    /\ slot = None
    /\ Len(procs) = 1
    /\ Len(attempts) >= 3
    /\ completed >= 1

C8_FailedLookupSkipsExeCandidates ==
    (Resolved /\ exe_dir = None) =>
        /\ \A k \in Attempts : attempts[k].cand = 1
        /\ pc \in {"spawn_uv", "spawn_python"} => idx = 1

\* The flat bundled-layout directory: exe_dir joined with "backend"
FlatDir == Join(Unwrap(exe_dir), FlatRel)
\* main.py exists in the flat bundled-layout directory and in no other
\* candidate directory
OnlyInFlat ==
    /\ Resolved
    /\ IsSome(exe_dir)
    /\ Exists(Join(FlatDir, MainPy))
    /\ ~Exists(Join(DevPath, MainPy))
    /\ ~Exists(Join(Join(Unwrap(exe_dir), ResourcesRel), MainPy))

\* C9: when main.py exists only in the flat bundled-layout candidate,
\* start_backend attempts uv in that directory first; when that spawn
\* succeeds it returns the Child of that process, which nothing has killed
\* before a Destroyed event; once a Destroyed call has completed, exactly
\* one kill has been issued, to that process, and the slot is None.
C9_FlatLayoutEndToEnd ==
    (Returned /\ OnlyInFlat) =>
        /\ attempts # <<>>
        /\ attempts[1].program = Uv
        /\ attempts[1].cwd = FlatDir
        /\ attempts[1].ok =>
              /\ backend = Some([pid |-> 1, program |-> Uv, cwd |-> FlatDir])
              /\ procs = <<Unwrap(backend)>>
              /\ stdout = <<StartedLine(Uv, FlatDir)>>
              /\ (pc = "running" /\ delivered = 0) => (slot = backend /\ kills = <<>>)
              /\ completed >= 1 =>
                    /\ slot = None
                    /\ Len(kills) = 1
                    /\ kills[1].child = Unwrap(backend)

C9_Witness ==
    /\ OnlyInFlat
    /\ attempts # <<>>
    /\ attempts[1].ok
    /\ completed >= 1
    /\ slot = None
    /\ Len(kills) = 1

\* C10: every kill is issued while the window host runs, hence after
\* start_backend has returned, and to the process start_backend spawned and
\* returned; when start_backend returned None no kill is issued and no
\* closure call reaches the kill.
C10_KillOnlyAfterStart ==
    /\ \A k \in 1..Len(kills) :
          /\ pc = "running"
          /\ managed
          /\ IsSome(backend)
          /\ kills[k].child = Unwrap(backend)
          /\ \E j \in 1..Len(procs) : procs[j] = kills[k].child
          /\ \E a \in Attempts :
                /\ attempts[a].ok
                /\ attempts[a].program = kills[k].child.program
                /\ attempts[a].cwd = kills[k].child.cwd
    /\ \A t \in Threads : hpc[t] # "idle" => pc = "running"
    /\ \A t \in Threads : IsSome(hchild[t]) =>
          /\ hchild[t] = backend
          /\ \E j \in 1..Len(procs) : procs[j] = Unwrap(hchild[t])
    /\ (Returned /\ backend = None) =>
          /\ kills = <<>>
          /\ \A t \in Threads : hpc[t] # "kill"

C10_Witness ==
    /\ Len(kills) = 1
    /\ kills[1].child.program = Python
    /\ kills[1].result = "Err"
    /\ completed >= 1

\* Position of start_backend in its own control flow: a number that grows
\* with every step of the function.
SbProgress ==
    CASE pc = "start_backend" -> 0
      [] pc = "loop" -> 3 * idx
      [] pc = "spawn_uv" -> 3 * idx + 1
      [] pc = "spawn_python" -> 3 * idx + 2
      [] OTHER -> 3 * (Len(backend_paths) + 2)
StartBackendStep == ResolvePaths \/ LoopCheck \/ SpawnUv \/ SpawnPython \/ ReturnNone

\* C11: whatever the filesystem holds and however the spawns end,
\* start_backend always has a next step until it returns, every step brings
\* it nearer to its return, and it never panics; after the return main can
\* always store the value (absent or not) and then call run(): the only
\* panic of the program is the expect on run() itself, after the store.
C11_SupervisorNeverBlocksUi ==
    /\ [](~Returned => (ENABLED StartBackendStep /\ SbProgress <= 3 * (Len(backend_paths) + 1)))
    /\ [][~Returned => SbProgress' > SbProgress]_vars
    /\ [](pc = "returned" => ENABLED Manage)
    /\ [](pc = "built" => (ENABLED Run /\ managed /\ slot = backend))
    /\ [](pc = "panicked" => (managed /\ Returned))
    /\ [][pc' = "panicked" => pc = "built"]_vars

C11_Witness ==
    /\ pc = "running"
    /\ backend = None
    /\ slot = None
    /\ Len(attempts) = 2 * Len(backend_paths)
    /\ \A k \in Attempts : ~attempts[k].ok

\* C12: a kill() that returns an error changes nothing else: the step that
\* issues the kill, whatever its result, leaves the slot empty, keeps the
\* guard and goes on to the end of the guard's scope without a panic; the
\* call can then always release the mutex and return, and the mutex is held
\* by no thread outside the guard's scope.
C12_KillErrorIgnored ==
    /\ [][\A t \in Threads : (hpc[t] = "kill" /\ hpc'[t] # "kill") =>
            /\ hpc'[t] = "unlock"
            /\ Len(kills') = Len(kills) + 1
            /\ lockHolder' = t
            /\ slot' = None
            /\ pc' = pc
            /\ completed' = completed]_vars
    /\ [](\A t \in Threads : hpc[t] = "unlock" => ENABLED Unlock(t))
    /\ [](\A t \in Threads : lockHolder = t => hpc[t] \in {"take", "kill", "unlock"})
    /\ [](\A k \in 1..Len(kills) :
            /\ slot = None
            /\ pc = "running"
            /\ hpc[kills[k].by] \in {"idle", "match", "try_state", "lock"} =>
                  (completed >= 1 /\ lockHolder # kills[k].by))

C12_Witness ==
    /\ Len(kills) = 1
    /\ kills[1].result = "Err"
    /\ hpc[kills[1].by] = "idle"
    /\ lockHolder = 0
    /\ slot = None
    /\ completed = 1

\* a closure call for an event other than Destroyed is in progress on t
OtherEvent(t) == hevent[t] \notin {NoEvent, "Destroyed"}

\* C13: once stored, the slot changes in one way only: from Some to None, in
\* the take of a closure call for a Destroyed event, and never back; a kill
\* is issued only by such a call; a call for any other event ends at the
\* if let and its steps change neither the slot nor the kills.
C13_OnlyDestroyedClearsSlot ==
    /\ [](\A t \in Threads :
            /\ hpc[t] \notin {"idle", "match"} => hevent[t] = "Destroyed"
            /\ OtherEvent(t) => hpc[t] = "match")
    /\ [][\A t \in Threads : (OtherEvent(t) /\ hpc'[t] # hpc[t]) =>
            /\ hpc'[t] = "idle"
            /\ slot' = slot
            /\ kills' = kills
            /\ lockHolder' = lockHolder]_vars
    /\ [][(managed /\ slot' # slot) =>
            /\ IsSome(slot)
            /\ slot' = None
            /\ \E t \in Threads :
                  /\ hevent[t] = "Destroyed"
                  /\ hpc[t] = "take"
                  /\ hpc'[t] = "kill"]_vars
    /\ [][kills' # kills =>
            \E t \in Threads : hevent[t] = "Destroyed" /\ hpc[t] = "kill"]_vars
    /\ [][(managed /\ slot = None) => slot' = None]_vars
    /\ [][~managed => (slot = None /\ (slot' # slot => pc = "returned"))]_vars

C13_Witness ==
    /\ pc = "running"
    /\ IsSome(slot)
    /\ delivered >= 2
    /\ completed = 0
    /\ \A t \in Threads : hpc[t] = "idle"

C15_ExactlyOneOutputLine ==
    /\ ~Returned => (stdout = <<>> /\ stderr = <<>>)
    /\ Returned =>
          /\ Len(stdout) + Len(stderr) = 1
          /\ IsSome(backend) <=> stdout # <<>>
          /\ backend = None <=> stderr = <<WarningLine>>
          /\ IsSome(backend) =>
                /\ stdout = <<StartedLine(Unwrap(backend).program, Unwrap(backend).cwd)>>
                /\ attempts # <<>>
                /\ attempts[Len(attempts)].ok
                /\ attempts[Len(attempts)].program = stdout[1].program
                /\ attempts[Len(attempts)].cwd = stdout[1].at
                /\ procs = <<Unwrap(backend)>>

C15_Witness ==
    /\ Returned
    /\ Len(attempts) = 4
    /\ IsSome(backend)
    /\ stdout = <<StartedLine(Python, backend_paths[3])>>
    /\ stderr = <<>>

\* a Destroyed event has been delivered to the closure
DestroyedDelivered == completed >= 1 \/ \E t \in Threads : hevent[t] = "Destroyed"

\* C16: when start_backend returned a Child and a Destroyed event has been
\* delivered, then, every closure call running to its end, from some point
\* on the slot is None for good and exactly one kill has been issued, to that
\* Child; and as long as no Destroyed event has been delivered while the
\* window host runs, the slot holds what start_backend returned and no kill
\* has been issued.
C16_DestroyedEventuallyKills ==
    /\ []((IsSome(backend) /\ DestroyedDelivered) =>
            <>[](/\ slot = None
                 /\ Len(kills) = 1
                 /\ kills[1].child = Unwrap(backend)
                 /\ lockHolder = 0))
    /\ []((pc = "running" /\ ~DestroyedDelivered) => (slot = backend /\ kills = <<>>))

C16_Witness ==
    /\ IsSome(backend)
    /\ completed >= 1
    /\ slot = None
    /\ Len(kills) = 1
    /\ delivered = MaxEvents
    /\ \A t \in Threads : hpc[t] = "idle"

====
